---- MODULE Spec2Model ----
(***************************************************************************)
(* Model of the Tempo server (src/unnamed/part_004): the hourly series     *)
(* helpers aggregateSamplesToHourly, interpolateValue and                   *)
(* buildHourlySeriesFromAggregated, and the GET /api/aq handler with its   *)
(* fallback tiers; and of the app's MapScreen (src/unnamed/part_001): the  *)
(* PM2.5 to AQI conversion and the concentric-circle fetch.                *)
(*                                                                         *)
(* Numbers.  JavaScript numbers are modelled as exact rationals <<n, d>>   *)
(* in lowest terms with d > 0; null and undefined are both NULL (the code  *)
(* only ever tests values with == null / != null).                         *)
(*                                                                         *)
(* Objects.  A JavaScript object is a function from its own property names *)
(* to values; a property the object does not have is not in the DOMAIN.    *)
(***************************************************************************)
EXTENDS Integers, Sequences, FiniteSets, TLC

VARIABLES
    \* ---- one GET /api/aq request ----
    pc,               \* position of the handler: the await it is suspended at
    query,            \* req.query: the lat and lon strings ("": not given)
    failed,           \* the upstream sources whose call failed in this request
    tempoMock,        \* module-level: contents of tempo-mock.json, or NoMock
    now,              \* Math.floor(Date.now() / 1000)
    countryCode,      \* let countryCode
    weather,          \* let weather
    warnings,         \* const warnings = []
    forecastSamples,  \* let forecastSamples
    historySamples,   \* let historySamples
    currentSample,    \* let currentSample
    hourlyEntries,    \* let hourlyEntries
    tier,             \* which branch assigned hourlyEntries (0: none yet)
    nasaWindow,       \* index into windows = [0,1,6,29] of the NASA loop
    nasaResult,       \* let nasaResult
    response,         \* what res.json / res.status(..).json sent
    \* ---- aggregateSamplesToHourly applied to a list of samples ----
    aggSamples, aggOut, aggDone,
    \* ---- buildHourlySeriesFromAggregated applied to a bucket map ----
    itpMap, itpSeries, itpDone,
    \* ---- two GET /api/aq requests in flight at once ----
    reqs,             \* the locals of each request's handler
    provided,         \* the provider results each request has received
    \* ---- MapScreen (src/unnamed/part_001) ----
    selected,         \* useState: the selected location
    loading,          \* useState
    circleInfos,      \* useState: { radius, pm25, aqi } per circle
    fetches,          \* the fetchConcentricCircleAQ calls awaiting Promise.all
    nSelect,          \* how many selections were made
    infosOf,          \* the location circleInfos was computed for
    \* ---- pm25ToAqi applied to two concentrations ----
    aqiIn, aqiOut

vars == << pc, query, failed, tempoMock, now, countryCode, weather, warnings, forecastSamples,
           historySamples, currentSample, hourlyEntries, tier, nasaWindow,
           nasaResult, response,
           aggSamples, aggOut, aggDone, itpMap, itpSeries, itpDone,
           reqs, provided,
           selected, loading, circleInfos, fetches, nSelect, infosOf,
           aqiIn, aqiOut >>

reqVars == << pc, query, failed, tempoMock, now, countryCode, weather, warnings, forecastSamples,
              historySamples, currentSample, hourlyEntries, tier, nasaWindow,
              nasaResult, response >>
aggVars == << aggSamples, aggOut, aggDone >>
itpVars == << itpMap, itpSeries, itpDone >>
twoVars == << reqs, provided >>
mapVars == << selected, loading, circleInfos, fetches, nSelect, infosOf >>
aqiVars == << aqiIn, aqiOut >>

---------------------------------------------------------------------------
(* Program constants *)
HOUR_SECONDS == 3600
SERIES_HOURS == 24

(* Bounds of the model *)
MaxRecords == 2      \* provider records of one request (forecast + history)
MaxAggSamples == 3   \* samples handed to aggregateSamplesToHourly
ItpHours == 5        \* hours built by buildHourlySeriesFromAggregated
MaxEnvRecords == 1   \* records of each provider in SpecEnv

---------------------------------------------------------------------------
(* JavaScript numbers as exact rationals *)
NULL == << 0, 0 >>
Num(i) == << i, 1 >>

Abs(a) == IF a < 0 THEN -a ELSE a

RECURSIVE Gcd(_, _)
Gcd(a, b) == IF b = 0 THEN a ELSE Gcd(b, a % b)

Norm(n, d) ==
    LET g == Gcd(Abs(n), Abs(d))
        s == IF d < 0 THEN -1 ELSE 1
    IN  << (s * n) \div g, (s * d) \div g >>

RAdd(a, b) == Norm(a[1] * b[2] + b[1] * a[2], a[2] * b[2])
RSub(a, b) == Norm(a[1] * b[2] - b[1] * a[2], a[2] * b[2])
RMul(a, b) == Norm(a[1] * b[1], a[2] * b[2])
RDiv(a, b) == Norm(a[1] * b[2], a[2] * b[1])
RLeq(a, b) == a[1] * b[2] <= b[1] * a[2]
\* Math.round: the nearest integer, halves up
RRound(a) == Num((2 * a[1] + a[2]) \div (2 * a[2]))

(* JavaScript objects *)
EmptyObj == [k \in {} |-> NULL]
\* o.k : the value, undefined when o has no k
Get(o, k) == IF k \in DOMAIN o THEN o[k] ELSE NULL

\* the elements of S, ascending (Array.prototype.sort((a,b) => a - b))
RECURSIVE SortAsc(_)
SortAsc(S) ==
    IF S = {} THEN << >>
    ELSE LET m == CHOOSE x \in S : \A y \in S : x <= y
         IN  << m >> \o SortAsc(S \ {m})

---------------------------------------------------------------------------
(* Timestamps.  A timestamp is a natural number of seconds, or HugeDt: a   *)
(* number so large that the Date built from it is invalid (beyond          *)
(* 8.64e15 ms), on which toISOString throws a RangeError.                  *)
HugeDt == -2

floorToHourSec(tsSec) ==
    IF tsSec = HugeDt THEN HugeDt
    ELSE (tsSec \div HOUR_SECONDS) * HOUR_SECONDS

\* new Date(tsSec * 1000).toISOString() throws for an invalid date
isoThrows(tsSec) == tsSec = HugeDt

\* the ISO-8601 text of tsSec, as its fields: day number since the epoch,
\* hour, minute, second
isoFromSec(tsSec) ==
    [ day |-> tsSec \div 86400,
      hh  |-> (tsSec % 86400) \div 3600,
      mm  |-> (tsSec % 3600) \div 60,
      ss  |-> tsSec % 60 ]

nowHourStartSec(nowSec) == floorToHourSec(nowSec)

---------------------------------------------------------------------------
(* aggregateSamplesToHourly.  A sample is an object with an optional dt    *)
(* (absent: no dt, or a dt that is not a number) and an optional           *)
(* components object.                                                      *)

\* typeof s.dt === 'number'
HasNumberDt(s) == "dt" \in DOMAIN s
\* s.components is truthy
HasComponents(s) == "components" \in DOMAIN s

\* const buckets = {}
NoBuckets == [h \in {} |-> [sum |-> EmptyObj, count |-> 0]]

\* AddSample with "sum[k] = Number(v)" for "sum[k] = (sum[k] || 0) + Number(v)"
AddSampleLastWins(buckets, s) ==
    IF ~HasNumberDt(s) \/ ~HasComponents(s) THEN buckets
    ELSE
      LET hourStartSec == floorToHourSec(s.dt)
          old == IF hourStartSec \in DOMAIN buckets
                 THEN buckets[hourStartSec]
                 ELSE [sum |-> EmptyObj, count |-> 0]
          c == s.components
          carried == {k \in DOMAIN c : c[k] # NULL}
          sum == [k \in (DOMAIN old.sum) \cup carried |->
                    IF k \in carried THEN c[k] ELSE old.sum[k]]
          new == [sum |-> sum, count |-> 1]
      IN  [h \in (DOMAIN buckets) \cup {hourStartSec} |->
              IF h = hourStartSec THEN new ELSE buckets[h]]

\* one iteration of the loop over the samples
AddSample(buckets, s) ==
    IF ~HasNumberDt(s) \/ ~HasComponents(s) THEN buckets
    ELSE
      LET hourStartSec == floorToHourSec(s.dt)
          old == IF hourStartSec \in DOMAIN buckets
                 THEN buckets[hourStartSec]
                 ELSE [sum |-> EmptyObj, count |-> 0]
          c == s.components
          carried == {k \in DOMAIN c : c[k] # NULL}
          sum == [k \in (DOMAIN old.sum) \cup carried |->
                    IF k \in carried
                    THEN RAdd(IF k \in DOMAIN old.sum THEN old.sum[k] ELSE Num(0), c[k])
                    ELSE old.sum[k]]
          new == [sum |-> sum, count |-> old.count + 1]
      IN  [h \in (DOMAIN buckets) \cup {hourStartSec} |->
              IF h = hourStartSec THEN new ELSE buckets[h]]

\* the buckets after the first n samples
RECURSIVE SumSamples(_, _)
SumSamples(samples, n) ==
    IF n = 0 THEN NoBuckets
    ELSE AddSample(SumSamples(samples, n - 1), samples[n])

\* BucketAvg that reports 0 for the components no sample of the hour carried
BucketAvgZeroFill(val) ==
    [k \in {"pm2_5", "pm10", "no2", "o3", "co"} |->
        IF k \in DOMAIN val.sum THEN RDiv(val.sum[k], Num(val.count)) ELSE Num(0)]

\* avg[k] = ssum / val.count
BucketAvg(val) == [k \in DOMAIN val.sum |-> RDiv(val.sum[k], Num(val.count))]

\* isoFromSec(hourSec) in the output loop throws on an invalid date
aggregateThrows(samples) ==
    \E h \in DOMAIN SumSamples(samples, Len(samples)) : isoThrows(h)

\* the sorted array of { ts, time, components, samples }
aggregateSamplesToHourly(samples) ==
    LET buckets == SumSamples(samples, Len(samples))
        keys == SortAsc(DOMAIN buckets)
    IN  [i \in 1..Len(keys) |->
            [ ts |-> keys[i],
              time |-> isoFromSec(keys[i]),
              components |-> BucketAvg(buckets[keys[i]]),
              samples |-> buckets[keys[i]].count ]]

\* aggMap.set(a.ts, { ts, components, samples }) for every a of the array
ToAggMap(aggregated) ==
    [ts \in {aggregated[i].ts : i \in 1..Len(aggregated)} |->
        LET a == aggregated[CHOOSE i \in 1..Len(aggregated) : aggregated[i].ts = ts]
        IN  [ts |-> a.ts, components |-> a.components, samples |-> a.samples]]

---------------------------------------------------------------------------
(* interpolateValue and buildHourlySeriesFromAggregated *)

\* the component keys of a sample and the entry fields they are copied to
FieldOf == [pm2_5 |-> "PM25", pm10 |-> "PM10", no2 |-> "NO2", o3 |-> "O3", co |-> "CO"]
CompKeys == DOMAIN FieldOf

\* leftKey / rightKey / left / right = null
NoKey == -1
NoBucket == [ts |-> NoKey]

\* b && b.components && b.components[key] != null
Carries(b, key) == "components" \in DOMAIN b /\ Get(b.components, key) # NULL

\* interpolateValue that takes the left value instead of interpolating
interpolateValueStep(targetTs, left, right, key) ==
    IF Carries(left, key) THEN left.components[key]
    ELSE IF Carries(right, key) THEN right.components[key]
    ELSE NULL

\* interpolateValue without its two flat-extrapolation branches
interpolateValueInner(targetTs, left, right, key) ==
    IF Carries(left, key) /\ Carries(right, key)
    THEN LET t == RDiv(Num(targetTs - left.ts), Num(right.ts - left.ts))
         IN  RAdd(left.components[key],
                  RMul(t, RSub(right.components[key], left.components[key])))
    ELSE NULL

\* interpolateValue that takes the neighbours to be one hour apart
interpolateValueHourly(targetTs, left, right, key) ==
    IF Carries(left, key) /\ Carries(right, key)
    THEN LET t == RDiv(Num(targetTs - left.ts), Num(HOUR_SECONDS))
         IN  RAdd(left.components[key],
                  RMul(t, RSub(right.components[key], left.components[key])))
    ELSE IF Carries(left, key) THEN left.components[key]
    ELSE IF Carries(right, key) THEN right.components[key]
    ELSE NULL

interpolateValue(targetTs, left, right, key) ==
    IF Carries(left, key) /\ Carries(right, key)
    THEN LET t == RDiv(Num(targetTs - left.ts), Num(right.ts - left.ts))
         IN  RAdd(left.components[key],
                  RMul(t, RSub(right.components[key], left.components[key])))
    ELSE IF Carries(left, key) THEN left.components[key]
    ELSE IF Carries(right, key) THEN right.components[key]
    ELSE NULL

\* the loop "for (const k of keys)" from index i on: the last key <= targetTs
\* and the first key > targetTs
RECURSIVE ScanKeys(_, _, _, _)
ScanKeys(keys, i, targetTs, leftKey) ==
    IF i > Len(keys) THEN [leftKey |-> leftKey, rightKey |-> NoKey]
    ELSE LET k == keys[i]
             l == IF k <= targetTs THEN k ELSE leftKey
         IN  IF k > targetTs THEN [leftKey |-> l, rightKey |-> k]
             ELSE ScanKeys(keys, i + 1, targetTs, l)

\* "if (v != null) entry.F = Number(v)" for the five components; val maps
\* every component key to its value or NULL
PollutantFields(val) ==
    LET present == {k \in CompKeys : val[k] # NULL}
    IN  [f \in {FieldOf[k] : k \in present} |->
            val[CHOOSE k \in present : FieldOf[k] = f]]

\* the entry built for one target hour
BuildEntry(aggregatedMap, keys, targetTs) ==
    IF targetTs \in DOMAIN aggregatedMap
    THEN LET agg == aggregatedMap[targetTs]
         IN  ("time" :> isoFromSec(targetTs))
             @@ PollutantFields([k \in CompKeys |-> Get(agg.components, k)])
             @@ ("sample_count" :> agg.samples)
    ELSE LET lr == ScanKeys(keys, 1, targetTs, NoKey)
             left == IF lr.leftKey # NoKey THEN aggregatedMap[lr.leftKey] ELSE NoBucket
             right == IF lr.rightKey # NoKey THEN aggregatedMap[lr.rightKey] ELSE NoBucket
         IN  ("time" :> isoFromSec(targetTs))
             @@ PollutantFields([k \in CompKeys |->
                                   interpolateValue(targetTs, left, right, k)])
             @@ ("sample_count" :> 0)

buildHourlySeriesFromAggregated(aggregatedMap, startHourSec, hours) ==
    LET keys == SortAsc(DOMAIN aggregatedMap)
    IN  [i \in 1..hours |->
            BuildEntry(aggregatedMap, keys, startHourSec + (i - 1) * HOUR_SECONDS)]

\* e.F != null
Has(e, f) == f \in DOMAIN e
\* reduce((s, e) => s + (e.PM25 != null ? 1 : 0), 0)
CountPM25(entries) == Cardinality({i \in 1..Len(entries) : Has(entries[i], "PM25")})

---------------------------------------------------------------------------
(* Values of the request's variables while no request is being modelled *)
NoMock == [absent |-> TRUE]
NoSample == [absent |-> TRUE]
NoWeather == [absent |-> TRUE]
NoNasa == [absent |-> TRUE]
NoCountry == ""
NoResponse == [status |-> 0]
NoQuery == [lat |-> "", lon |-> ""]

ReqOff ==
    /\ pc = "off"
    /\ query = NoQuery
    /\ failed = {}
    /\ tempoMock = NoMock
    /\ now = 0
    /\ countryCode = NoCountry
    /\ weather = NoWeather
    /\ warnings = << >>
    /\ forecastSamples = << >>
    /\ historySamples = << >>
    /\ currentSample = NoSample
    /\ hourlyEntries = << >>
    /\ tier = 0
    /\ nasaWindow = 0
    /\ nasaResult = NoNasa
    /\ response = NoResponse

AggOff == aggSamples = << >> /\ aggOut = << >> /\ aggDone = FALSE
ItpOff == itpMap = EmptyObj /\ itpSeries = << >> /\ itpDone = FALSE
TwoOff == reqs = << >> /\ provided = << >>
NoLocation == ""
MapOff ==
    /\ selected = NoLocation /\ loading = FALSE /\ circleInfos = << >>
    /\ fetches = {} /\ nSelect = 0 /\ infosOf = NoLocation
AqiOff == aqiIn = << >> /\ aqiOut = << >>

\* all sequences over S of length at most n
SeqsUpTo(S, n) == UNION {[1..k -> S] : k \in 0..n}

---------------------------------------------------------------------------
(* SpecAgg: aggregateSamplesToHourly applied to every list of at most      *)
(* MaxAggSamples samples drawn from AggSampleSet.  The set holds samples   *)
(* of two hours (two of them in the same hour at different minutes),       *)
(* samples that lack a component or carry it as null, a sample without     *)
(* components and a sample without a numeric dt.                           *)
AggHour == 10 * HOUR_SECONDS

AggComponents ==
    { "pm2_5" :> Num(10),
      ("pm2_5" :> Num(30)) @@ ("no2" :> Num(4)),
      "no2" :> Num(8) }

AggSampleSet ==
    { [dt |-> d, components |-> c] : d \in {AggHour, AggHour + 1800, AggHour + 3600},
                                     c \in AggComponents }
    \cup { [dt |-> AggHour + 60, components |-> ("pm2_5" :> NULL) @@ ("no2" :> Num(4))],
           [dt |-> AggHour + 60, components |-> EmptyObj],
           [dt |-> AggHour + 120],
           [components |-> "pm2_5" :> Num(10)] }

InitAgg ==
    /\ ReqOff /\ ItpOff /\ TwoOff /\ MapOff /\ AqiOff
    /\ aggSamples \in SeqsUpTo(AggSampleSet, MaxAggSamples)
    /\ aggOut = << >>
    /\ aggDone = FALSE

Aggregate ==
    /\ ~aggDone
    /\ aggOut' = aggregateSamplesToHourly(aggSamples)
    /\ aggDone' = TRUE
    /\ UNCHANGED << aggSamples, reqVars, itpVars, twoVars, mapVars, aqiVars >>

NextAgg == Aggregate

SpecAgg == InitAgg /\ [][NextAgg]_vars

---------------------------------------------------------------------------
(* SpecItp: buildHourlySeriesFromAggregated applied to every map that has, *)
(* at each hour from one hour before the window to one hour after it,      *)
(* no bucket or a bucket with one of ItpComponents.                        *)
ItpStart == 10 * HOUR_SECONDS

ItpComponents ==
    << "pm2_5" :> Num(10), "pm2_5" :> Num(50), "no2" :> Num(6) >>

ItpPositions == -1 .. ItpHours

\* the map with a bucket of ItpComponents[f[p]] at every position p with f[p] > 0
ItpMapOf(f) ==
    [ts \in {ItpStart + p * HOUR_SECONDS : p \in {q \in ItpPositions : f[q] > 0}} |->
        [ts |-> ts,
         components |-> ItpComponents[f[(ts - ItpStart) \div HOUR_SECONDS]],
         samples |-> 1]]

InitItp ==
    /\ ReqOff /\ AggOff /\ TwoOff /\ MapOff /\ AqiOff
    /\ itpMap \in {ItpMapOf(f) : f \in [ItpPositions -> 0..Len(ItpComponents)]}
    /\ itpSeries = << >>
    /\ itpDone = FALSE

BuildSeries ==
    /\ ~itpDone
    /\ itpSeries' = buildHourlySeriesFromAggregated(itpMap, ItpStart, ItpHours)
    /\ itpDone' = TRUE
    /\ UNCHANGED << itpMap, reqVars, aggVars, twoVars, mapVars, aqiVars >>

NextItp == BuildSeries

SpecItp == InitItp /\ [][NextItp]_vars

---------------------------------------------------------------------------
(* GET /api/aq: the series of the request, lines 354-498 *)

\* it => ({ ts: it.dt, components: it.components || {} })
NormalizeRecord(it) ==
    LET c == IF "components" \in DOMAIN it THEN it.components ELSE EmptyObj
    IN  IF "dt" \in DOMAIN it THEN [ts |-> it.dt, components |-> c]
        ELSE [components |-> c]

NormalizeList(list) == [i \in 1..Len(list) |-> NormalizeRecord(list[i])]

\* s => ({ dt: s.ts, components: s.components })
RawSample(s) ==
    IF "ts" \in DOMAIN s THEN [dt |-> s.ts, components |-> s.components]
    ELSE [components |-> s.components]

RawSamples(samples) == [i \in 1..Len(samples) |-> RawSample(samples[i])]

\* tier 1: the series built from the aggregated forecast + history samples
CombinedCandidate(combinedSamples, startHour, targetHours) ==
    buildHourlySeriesFromAggregated(
        ToAggMap(aggregateSamplesToHourly(RawSamples(combinedSamples))),
        startHour, targetHours)

\* forecastSamples.forEach(s => fcMap.set(floorToHourSec(s.ts), s.components)):
\* the components of the last sample of each hour; a sample without a
\* numeric ts is stored under NaN, which no target hour equals
FcMap(samples) ==
    LET withTs == {i \in 1..Len(samples) : "ts" \in DOMAIN samples[i]}
    IN  [h \in {floorToHourSec(samples[i].ts) : i \in withTs} |->
            LET last == CHOOSE i \in withTs :
                           /\ floorToHourSec(samples[i].ts) = h
                           /\ \A j \in withTs :
                                 floorToHourSec(samples[j].ts) = h => j <= i
            IN  samples[last].components]

\* DirectCandidate that gives every target hour the first forecast sample's
\* components instead of those of the sample of that hour
DirectCandidateAnyHour(samples, startHour, targetHours) ==
    [i \in 1..targetHours |->
        LET ts == startHour + (i - 1) * HOUR_SECONDS
        IN  IF Len(samples) > 0
            THEN ("time" :> isoFromSec(ts))
                 @@ PollutantFields([k \in CompKeys |-> Get(samples[1].components, k)])
            ELSE ("time" :> isoFromSec(ts))]

\* tier 2: exact-hour matches of the forecast; the entries get no sample_count
DirectCandidate(samples, startHour, targetHours) ==
    LET fcMap == FcMap(samples)
    IN  [i \in 1..targetHours |->
            LET ts == startHour + (i - 1) * HOUR_SECONDS
            IN  IF ts \in DOMAIN fcMap
                THEN ("time" :> isoFromSec(ts))
                     @@ PollutantFields([k \in CompKeys |-> Get(fcMap[ts], k)])
                ELSE ("time" :> isoFromSec(ts))]

\* built.findIndex(e => e.time === isoFromSec(startHour)), 0-based, -1 if none
FindIndex(built, time) ==
    LET hits == {i \in 1..Len(built) : built[i].time = time}
    IN  IF hits = {} THEN -1
        ELSE (CHOOSE i \in hits : \A j \in hits : i <= j) - 1

Max(a, b) == IF a >= b THEN a ELSE b
Min(a, b) == IF a <= b THEN a ELSE b

\* built.slice(from, to), 0-based, to exclusive
Slice(built, from, to) ==
    LET last == Min(to, Len(built))
    IN  IF last <= from THEN << >>
        ELSE [i \in 1..(last - from) |-> built[from + i]]

\* HistoryCandidate that slices from index 0 instead of from startHour's entry
HistoryCandidateUnsliced(samples, startHour, targetHours) ==
    LET built == buildHourlySeriesFromAggregated(
                     ToAggMap(aggregateSamplesToHourly(RawSamples(samples))),
                     startHour - 12 * HOUR_SECONDS, targetHours + 24)
    IN  Slice(built, 0, targetHours)

\* tier 3: the series built from the history alone over a window that starts
\* 12 hours earlier and is 24 hours longer, sliced to the target hours
HistoryCandidate(samples, startHour, targetHours) ==
    LET built == buildHourlySeriesFromAggregated(
                     ToAggMap(aggregateSamplesToHourly(RawSamples(samples))),
                     startHour - 12 * HOUR_SECONDS, targetHours + 24)
        sliceStartIndex == Max(0, FindIndex(built, isoFromSec(startHour)))
    IN  Slice(built, sliceStartIndex, sliceStartIndex + targetHours)

\* FallbackBase that prefers the mock to the current sample
FallbackBaseMockFirst(cur, mock) ==
    IF "hourly" \in DOMAIN mock /\ Len(mock.hourly) > 0 THEN mock.hourly[1]
    ELSE IF "components" \in DOMAIN cur THEN cur.components
    ELSE EmptyObj

\* tier 4, the base object.  fetch_openweather_history_avg is not defined
\* anywhere, so the call throws a ReferenceError that the surrounding try
\* swallows and base stays {}; then the current sample, then the mock
FallbackBase(cur, mock) ==
    LET base0 == EmptyObj
        base1 == IF DOMAIN base0 = {} /\ "components" \in DOMAIN cur
                 THEN cur.components ELSE base0
        base2 == IF DOMAIN base1 = {} /\ "hourly" \in DOMAIN mock /\ Len(mock.hourly) > 0
                 THEN mock.hourly[1] ELSE base1
    IN  base2

\* tier 4: the base replicated over the target hours
FallbackCandidate(cur, mock, startHour, targetHours) ==
    LET base == FallbackBase(cur, mock)
    IN  [i \in 1..targetHours |->
            ("time" :> isoFromSec(startHour + (i - 1) * HOUR_SECONDS))
            @@ PollutantFields([k \in CompKeys |-> Get(base, k)])
            @@ ("sample_count" :> 0)]

\* SelectSeries that uses the replicated current sample whenever there is one
SelectSeriesCurrentFirst(fc, hist, cur, mock, startHour, targetHours) ==
    LET combinedSamples == fc \o hist
        built == CombinedCandidate(combinedSamples, startHour, targetHours)
        arr == FallbackCandidate(cur, mock, startHour, targetHours)
    IN  IF Len(combinedSamples) > 0 /\ aggregateThrows(RawSamples(combinedSamples))
        THEN [threw |-> TRUE, tier |-> 0, hourlyEntries |-> << >>]
        ELSE IF "components" \in DOMAIN cur /\ CountPM25(arr) >= 2
        THEN [threw |-> FALSE, tier |-> 4, hourlyEntries |-> arr]
        ELSE IF Len(combinedSamples) > 0 /\ CountPM25(built) >= 2
        THEN [threw |-> FALSE, tier |-> 1, hourlyEntries |-> built]
        ELSE [threw |-> FALSE, tier |-> 4, hourlyEntries |-> arr]

\* the synchronous part of the handler from line 398 to line 498: the tier
\* that assigns hourlyEntries, or threw when aggregateSamplesToHourly throws
SelectSeries(fc, hist, cur, mock, startHour, targetHours) ==
    LET combinedSamples == fc \o hist
        built == CombinedCandidate(combinedSamples, startHour, targetHours)
        direct == DirectCandidate(fc, startHour, targetHours)
        candidate == HistoryCandidate(hist, startHour, targetHours)
        arr == FallbackCandidate(cur, mock, startHour, targetHours)
    IN  IF Len(combinedSamples) > 0 /\ aggregateThrows(RawSamples(combinedSamples))
        THEN [threw |-> TRUE, tier |-> 0, hourlyEntries |-> << >>]
        ELSE IF Len(combinedSamples) > 0 /\ CountPM25(built) >= 2
        THEN [threw |-> FALSE, tier |-> 1, hourlyEntries |-> built]
        ELSE IF Len(combinedSamples) > 0 /\ Len(fc) > 0 /\ CountPM25(direct) >= 2
        THEN [threw |-> FALSE, tier |-> 2, hourlyEntries |-> direct]
        ELSE IF Len(hist) > 0 /\ CountPM25(candidate) >= 2
        THEN [threw |-> FALSE, tier |-> 3, hourlyEntries |-> candidate]
        ELSE [threw |-> FALSE, tier |-> 4, hourlyEntries |-> arr]

---------------------------------------------------------------------------
(* GET /api/aq: enrichment and responses, lines 500-587 *)

ALLOWED_COUNTRY_CODES == {"US", "CA", "MX"}
NasaWindows == << 0, 1, 6, 29 >>

\* NasaAllowed that only asks for a country code
NasaAllowedAnyCountry(code) == code # NoCountry

\* countryCode && ALLOWED_COUNTRY_CODES.has(countryCode)
NasaAllowed(code) == code # NoCountry /\ code \in ALLOWED_COUNTRY_CODES

\* o.k = v
Set(o, k, v) == (k :> v) @@ o

\* weather.main?.temp and the like: NULL when a link is missing
GetIn(o, k1, k2) == IF k1 \in DOMAIN o THEN Get(o[k1], k2) ELSE NULL

\* the body of "for (const he of hourlyEntries)": each field after the NASA
\* block (n..) and after the fallback to the point weather
EnrichEntry(he, nasa, wx) ==
    LET byNasa == "parameters" \in DOMAIN nasa
        p == IF byNasa THEN nasa.parameters ELSE EmptyObj
        nT == IF Get(p, "T2M") # NULL THEN p.T2M ELSE Get(he, "Temperature")
        nH == IF Get(p, "RH2M") # NULL THEN p.RH2M ELSE Get(he, "Humidity")
        nW == IF Get(p, "WS10M") # NULL THEN p.WS10M ELSE Get(he, "Wind_Speed")
        nP == IF Get(p, "PS") # NULL THEN p.PS ELSE Get(he, "Pressure")
        nPh == IF Get(p, "PS") # NULL THEN RRound(RDiv(p.PS, Num(100)))
               ELSE Get(he, "Pressure_hPa")
        fallback == wx # NoWeather /\ (nT = NULL \/ nH = NULL \/ nW = NULL)
        wT == GetIn(wx, "main", "temp")
        wH == GetIn(wx, "main", "humidity")
        wW == GetIn(wx, "wind", "speed")
        wP == GetIn(wx, "main", "pressure")
        fromWx == fallback /\ nPh = NULL /\ wP # NULL
        val == [ Temperature  |-> IF fallback /\ nT = NULL THEN wT ELSE nT,
                 Humidity     |-> IF fallback /\ nH = NULL THEN wH ELSE nH,
                 Wind_Speed   |-> IF fallback /\ nW = NULL THEN wW ELSE nW,
                 Pressure_hPa |-> IF fromWx THEN wP ELSE nPh,
                 Pressure     |-> IF fromWx /\ (nP = NULL \/ nP = Num(0))
                                  THEN RRound(RMul(wP, Num(100))) ELSE nP ]
        set == {f \in DOMAIN val : val[f] # NULL}
    IN  [f \in set |-> val[f]]
        @@ (IF byNasa THEN "_nasa_date" :> nasa.date ELSE EmptyObj)
        @@ he

EnrichAll(entries, nasa, wx) ==
    [i \in 1..Len(entries) |-> EnrichEntry(entries[i], nasa, wx)]

\* res.json({ ground: null, weather, tempo, warnings }) with tempo.hourly
SeriesResponse(entries, wx, warns) ==
    [status |-> 200, kind |-> "series", hourly |-> entries,
     weather |-> wx, warnings |-> warns]

\* the catch block of the handler
ErrorResponse(mock) ==
    IF mock # NoMock
    THEN [status |-> 200, kind |-> "mock", tempo |-> mock,
          warnings |-> << [source |-> "server", detail |-> "error; returned tempo mock"] >>]
    ELSE [status |-> 500, kind |-> "error", error |-> "server error"]

BadRequestResponse ==
    [status |-> 400, kind |-> "error", error |-> "lat and lon query parameters required"]

\* the warnings pushed once countryCode is known
CountryWarnings(code) ==
    IF code = NoCountry
    THEN << [source |-> "geocode", detail |-> "could not determine country code"] >>
    ELSE IF code \notin ALLOWED_COUNTRY_CODES
    THEN << [source |-> "region", detail |-> "location outside US/CA/MX"] >>
    ELSE << >>

---------------------------------------------------------------------------
(* GET /api/aq: one request.  The handler runs from one await to the next; *)
(* each action is the code between two awaits, with the outcome of the     *)
(* awaited provider call as its input.                                     *)

FAIL == "fail"

\* !lat, !lon: the parameter is not given, or given empty
Missing(s) == s = ""
\* the strings Number() turns into a number; on any other, Number() is NaN
NumericStrings == {"34.05", "-118.24"}

\* the handler is entered: "if (!lat || !lon)" answers 400
Request(q) ==
    /\ pc = "start"
    /\ query' = q
    /\ IF Missing(q.lat) \/ Missing(q.lon)
       THEN pc' = "done" /\ response' = BadRequestResponse
       ELSE pc' = "country" /\ UNCHANGED response
    /\ UNCHANGED << failed, tempoMock, now, countryCode, weather, warnings,
                    forecastSamples, historySamples, currentSample, hourlyEntries,
                    tier, nasaWindow, nasaResult, aggVars, itpVars, twoVars, mapVars, aqiVars >>

\* getCountryCode, first lookup (OpenWeather weather, sys.country)
CountryFromWeather(outcome) ==
    /\ pc = "country"
    /\ IF outcome = FAIL
       THEN pc' = "country2" /\ UNCHANGED << countryCode, warnings >>
       ELSE /\ pc' = "weather"
            /\ countryCode' = outcome
            /\ warnings' = warnings \o CountryWarnings(outcome)
    /\ UNCHANGED << query, failed, tempoMock, now, weather, forecastSamples,
                    historySamples, currentSample, hourlyEntries, tier, nasaWindow,
                    nasaResult, response, aggVars, itpVars, twoVars, mapVars, aqiVars >>

\* getCountryCode, second lookup (bigdatacloud reverse geocode), else null
CountryFromGeocode(outcome) ==
    /\ pc = "country2"
    /\ pc' = "weather"
    /\ countryCode' = IF outcome = FAIL THEN NoCountry ELSE outcome
    /\ failed' = IF outcome = FAIL THEN failed \cup {"geocode"} ELSE failed
    /\ warnings' = warnings \o CountryWarnings(countryCode')
    /\ UNCHANGED << query, tempoMock, now, weather, forecastSamples, historySamples,
                    currentSample, hourlyEntries, tier, nasaWindow, nasaResult,
                    response, aggVars, itpVars, twoVars, mapVars, aqiVars >>

\* safeFetch(weatherUrl)
FetchWeather(outcome) ==
    /\ pc = "weather"
    /\ pc' = "forecast"
    /\ IF outcome = NoWeather
       THEN /\ warnings' = Append(warnings,
                                  [source |-> "openweather_weather", detail |-> "error"])
            /\ failed' = failed \cup {"weather"}
            /\ UNCHANGED weather
       ELSE weather' = outcome /\ UNCHANGED << warnings, failed >>
    /\ UNCHANGED << query, tempoMock, now, countryCode, forecastSamples,
                    historySamples, currentSample, hourlyEntries, tier, nasaWindow,
                    nasaResult, response, aggVars, itpVars, twoVars, mapVars, aqiVars >>

\* fetch_openweather_forecast_series: resp.data.list, or [] when the call
\* failed (ok = FALSE)
FetchForecast(ok, list) ==
    /\ pc = "forecast"
    /\ pc' = "history"
    /\ forecastSamples' = IF ok THEN NormalizeList(list) ELSE << >>
    /\ failed' = IF ok THEN failed ELSE failed \cup {"forecast"}
    /\ UNCHANGED << query, tempoMock, now, countryCode, weather, warnings,
                    historySamples, currentSample, hourlyEntries, tier, nasaWindow,
                    nasaResult, response, aggVars, itpVars, twoVars, mapVars, aqiVars >>

\* fetch_openweather_history_series: resp.data.list, or [] when the call
\* failed (ok = FALSE)
FetchHistory(ok, list) ==
    /\ pc = "history"
    /\ pc' = "current"
    /\ historySamples' = IF ok THEN NormalizeList(list) ELSE << >>
    /\ failed' = IF ok THEN failed ELSE failed \cup {"history"}
    /\ UNCHANGED << query, tempoMock, now, countryCode, weather, warnings,
                    forecastSamples, currentSample, hourlyEntries, tier, nasaWindow,
                    nasaResult, response, aggVars, itpVars, twoVars, mapVars, aqiVars >>

\* fetch_openweather_current returned cur (NoSample: null, as it does when
\* the call failed, ok = FALSE); then the code up to the next await: the
\* series is selected and, unless the NASA loop is entered, enriched and sent
FetchCurrent(ok, cur) ==
    /\ pc = "current"
    /\ currentSample' = IF ~ok \/ cur = NoSample THEN NoSample ELSE NormalizeRecord(cur)
    /\ failed' = IF ok THEN failed ELSE failed \cup {"current"}
    /\ \E sel \in {SelectSeries(forecastSamples, historySamples, currentSample',
                                tempoMock, nowHourStartSec(now), SERIES_HOURS)} :
           IF sel.threw
           THEN /\ pc' = "done"
                /\ response' = ErrorResponse(tempoMock)
                /\ UNCHANGED << hourlyEntries, tier, nasaWindow >>
           ELSE /\ tier' = sel.tier
                /\ IF NasaAllowed(countryCode)
                   THEN /\ pc' = "nasa"
                        /\ nasaWindow' = 1
                        /\ hourlyEntries' = sel.hourlyEntries
                        /\ UNCHANGED response
                   ELSE /\ pc' = "done"
                        /\ hourlyEntries' = EnrichAll(sel.hourlyEntries, nasaResult, weather)
                        /\ response' = SeriesResponse(hourlyEntries', weather, warnings)
                        /\ UNCHANGED nasaWindow
    /\ UNCHANGED << query, tempoMock, now, countryCode, weather, warnings,
                    forecastSamples, historySamples, nasaResult, aggVars, itpVars, twoVars, mapVars, aqiVars >>

\* pf.fetch_point_daily for windows[nasaWindow].  The fetch threw (ok = FALSE)
\* or no parameter has a date (outcome = NoNasa): on to the next window; a
\* result ends the loop; after the loop the entries are enriched and sent
NasaFetch(ok, outcome) ==
    /\ pc = "nasa"
    /\ failed' = IF ok THEN failed ELSE failed \cup {"nasa"}
    /\ \E res \in {IF ok THEN outcome ELSE NoNasa} :
          IF res = NoNasa /\ nasaWindow < Len(NasaWindows)
          THEN /\ nasaWindow' = nasaWindow + 1
               /\ UNCHANGED << pc, nasaResult, hourlyEntries, response >>
          ELSE /\ pc' = "done"
               /\ nasaResult' = res
               /\ hourlyEntries' = EnrichAll(hourlyEntries, res, weather)
               /\ response' = SeriesResponse(hourlyEntries', weather, warnings)
               /\ UNCHANGED nasaWindow
    /\ UNCHANGED << query, tempoMock, now, countryCode, weather, warnings,
                    forecastSamples, historySamples, currentSample, tier, aggVars,
                    itpVars, twoVars, mapVars, aqiVars >>

\* the awaits of the handler in program order, and for the calls to the
\* country lookup, the forecast and the history: the await at which the call
\* is made and the first position at which its result has been received
PcOrder == << "start", "country", "country2", "weather", "forecast", "history",
              "current", "nasa", "done" >>
PcIndex(p) == CHOOSE i \in 1..Len(PcOrder) : PcOrder[i] = p

CallIssuedAt == [country |-> "country", forecast |-> "forecast", history |-> "history"]
CallReturnedAt == [country |-> "weather", forecast |-> "history", history |-> "current"]

Issued(call) ==
    response # BadRequestResponse /\ PcIndex(pc) >= PcIndex(CallIssuedAt[call])
Returned(call) ==
    response # BadRequestResponse /\ PcIndex(pc) >= PcIndex(CallReturnedAt[call])

---------------------------------------------------------------------------
(* Spec: one request, with every outcome of every provider call drawn from *)
(* the sets below.                                                         *)

\* Date.now() / 1000: 20 minutes 34 seconds into an hour
NowChoices == {472222 * HOUR_SECONDS + 1234}

\* tempo-mock.json: absent, or a document with one hourly entry
MockChoices == {NoMock, [hourly |-> << "pm2_5" :> Num(5) >>]}

\* req.query: both coordinates, or no lat
QueryChoices ==
    { [lat |-> "34.05", lon |-> "-118.24"],
      [lat |-> "", lon |-> "-118.24"] }

CountryChoices == {FAIL, "US", "IN"}
GeocodeChoices == {FAIL, "US"}

WeatherChoices ==
    {NoWeather,
     [name |-> "City",
      main |-> [temp |-> Num(21), humidity |-> Num(40), pressure |-> Num(1013)],
      wind |-> [speed |-> Num(3)]]}

\* the most recent day of NASA POWER: no day at all, or a day without humidity
NasaChoices ==
    {NoNasa,
     [date |-> "20261105",
      parameters |-> [T2M |-> Num(18), RH2M |-> NULL, WS10M |-> Num(2),
                      PS |-> Num(101), PRECTOTCORR |-> Num(0)]]}

\* the records a provider may return, relative to the current hour start h:
\* PM2.5 in the previous hour, NO2 only in the current hour, PM2.5 two and
\* three hours ahead, and a timestamp beyond the Date range
ProviderRecords(h) ==
    { [dt |-> h - HOUR_SECONDS + 600, components |-> "pm2_5" :> Num(10)],
      [dt |-> h + 1800, components |-> "no2" :> Num(7)],
      [dt |-> h + 2 * HOUR_SECONDS, components |-> "pm2_5" :> Num(50)],
      [dt |-> h + 3 * HOUR_SECONDS, components |-> "pm2_5" :> Num(30)],
      [dt |-> HugeDt, components |-> "pm2_5" :> Num(10)] }

CurrentChoices(h) ==
    {NoSample,
     [dt |-> h + 1234, components |-> ("pm2_5" :> Num(42)) @@ ("no2" :> Num(9))],
     [dt |-> h + 1234]}

Init ==
    /\ AggOff /\ ItpOff /\ TwoOff /\ MapOff /\ AqiOff
    /\ pc = "start"
    /\ query = NoQuery
    /\ failed = {}
    /\ tempoMock \in MockChoices
    /\ now \in NowChoices
    /\ countryCode = NoCountry
    /\ weather = NoWeather
    /\ warnings = << >>
    /\ forecastSamples = << >>
    /\ historySamples = << >>
    /\ currentSample = NoSample
    /\ hourlyEntries = << >>
    /\ tier = 0
    /\ nasaWindow = 0
    /\ nasaResult = NoNasa
    /\ response = NoResponse

Next ==
    \/ \E q \in QueryChoices : Request(q)
    \/ \E c \in CountryChoices : CountryFromWeather(c)
    \/ \E c \in GeocodeChoices : CountryFromGeocode(c)
    \/ \E w \in WeatherChoices : FetchWeather(w)
    \/ \E l \in SeqsUpTo(ProviderRecords(nowHourStartSec(now)), MaxRecords) :
          FetchForecast(TRUE, l)
    \/ \E l \in SeqsUpTo(ProviderRecords(nowHourStartSec(now)),
                         MaxRecords - Len(forecastSamples)) :
          FetchHistory(TRUE, l)
    \/ \E c \in CurrentChoices(nowHourStartSec(now)) : FetchCurrent(TRUE, c)
    \/ \E n \in NasaChoices : NasaFetch(TRUE, n)

Spec == Init /\ [][Next]_vars

---------------------------------------------------------------------------
(* SpecEnv: one request, with the outcomes of the calls around the series   *)
(* in full: a lon that is not a number, calls that fail, a NASA day         *)
(* without surface pressure; the providers return at most MaxEnvRecords     *)
(* records each, among them one without components and one without a       *)
(* timestamp.                                                              *)

EnvQueryChoices == QueryChoices \cup { [lat |-> "34.05", lon |-> "abc"] }

EnvNasaChoices ==
    NasaChoices \cup
    { [date |-> "20261105",
       parameters |-> [T2M |-> Num(18), RH2M |-> Num(55), WS10M |-> Num(2),
                       PS |-> NULL, PRECTOTCORR |-> Num(0)]] }

EnvRecords(h) ==
    { [dt |-> h + 2 * HOUR_SECONDS, components |-> "pm2_5" :> Num(50)],
      [dt |-> h + 1800],
      [components |-> "pm2_5" :> Num(10)] }

EnvCurrentChoices(h) ==
    {NoSample,
     [dt |-> h + 1234, components |-> ("pm2_5" :> Num(42)) @@ ("no2" :> Num(9))],
     [components |-> "pm2_5" :> Num(42)]}

NextEnv ==
    \/ \E q \in EnvQueryChoices : Request(q)
    \/ \E c \in CountryChoices : CountryFromWeather(c)
    \/ \E c \in GeocodeChoices : CountryFromGeocode(c)
    \/ \E w \in WeatherChoices : FetchWeather(w)
    \/ \E l \in SeqsUpTo(EnvRecords(nowHourStartSec(now)), MaxEnvRecords) :
          FetchForecast(TRUE, l)
    \/ FetchForecast(FALSE, << >>)
    \/ \E l \in SeqsUpTo(EnvRecords(nowHourStartSec(now)), MaxEnvRecords) :
          FetchHistory(TRUE, l)
    \/ FetchHistory(FALSE, << >>)
    \/ \E c \in EnvCurrentChoices(nowHourStartSec(now)) : FetchCurrent(TRUE, c)
    \/ FetchCurrent(FALSE, NoSample)
    \/ \E n \in EnvNasaChoices : NasaFetch(TRUE, n)
    \/ NasaFetch(FALSE, NoNasa)

SpecEnv == Init /\ [][NextEnv]_vars

---------------------------------------------------------------------------
(* Two GET /api/aq requests in flight at once.  Node runs one handler at a *)
(* time from one await to the next; the locals of each request are its own *)
(* and tempoMock is the module-level variable both read.                   *)

Requests == { 1, 2 }

\* the locals of a handler that has just been entered
NewRequest ==
    [pc |-> "start", countryCode |-> NoCountry, weather |-> NoWeather,
     warnings |-> << >>, forecastSamples |-> << >>, historySamples |-> << >>,
     currentSample |-> NoSample, hourlyEntries |-> << >>, tier |-> 0,
     nasaWindow |-> 0, nasaResult |-> NoNasa, response |-> NoResponse]

\* the code of the handler from one await to the next: st are the locals,
\* mock is tempoMock as the handler reads it, t is Date.now() / 1000, and
\* inp is the outcome of the awaited call (ok = FALSE: the call threw)
AfterAwait(st, mock, t, inp) ==
    CASE st.pc = "start" ->
            IF Missing(inp.val.lat) \/ Missing(inp.val.lon)
            THEN [st EXCEPT !.pc = "done", !.response = BadRequestResponse]
            ELSE [st EXCEPT !.pc = "country"]
      [] st.pc = "country" ->
            IF inp.val = FAIL
            THEN [st EXCEPT !.pc = "country2"]
            ELSE [st EXCEPT !.pc = "weather", !.countryCode = inp.val,
                            !.warnings = @ \o CountryWarnings(inp.val)]
      [] st.pc = "country2" ->
            LET code == IF inp.val = FAIL THEN NoCountry ELSE inp.val
            IN  [st EXCEPT !.pc = "weather", !.countryCode = code,
                           !.warnings = @ \o CountryWarnings(code)]
      [] st.pc = "weather" ->
            IF inp.val = NoWeather
            THEN [st EXCEPT !.pc = "forecast",
                            !.warnings = Append(@, [source |-> "openweather_weather",
                                                    detail |-> "error"])]
            ELSE [st EXCEPT !.pc = "forecast", !.weather = inp.val]
      [] st.pc = "forecast" ->
            [st EXCEPT !.pc = "history",
                       !.forecastSamples = IF inp.ok THEN NormalizeList(inp.val)
                                           ELSE << >>]
      [] st.pc = "history" ->
            [st EXCEPT !.pc = "current",
                       !.historySamples = IF inp.ok THEN NormalizeList(inp.val)
                                          ELSE << >>]
      [] st.pc = "current" ->
            LET cur == IF ~inp.ok \/ inp.val = NoSample THEN NoSample
                       ELSE NormalizeRecord(inp.val)
                sel == SelectSeries(st.forecastSamples, st.historySamples, cur,
                                    mock, nowHourStartSec(t), SERIES_HOURS)
                sent == EnrichAll(sel.hourlyEntries, st.nasaResult, st.weather)
            IN  IF sel.threw
                THEN [st EXCEPT !.pc = "done", !.currentSample = cur,
                                !.response = ErrorResponse(mock)]
                ELSE IF NasaAllowed(st.countryCode)
                THEN [st EXCEPT !.pc = "nasa", !.currentSample = cur,
                                !.tier = sel.tier, !.nasaWindow = 1,
                                !.hourlyEntries = sel.hourlyEntries]
                ELSE [st EXCEPT !.pc = "done", !.currentSample = cur,
                                !.tier = sel.tier, !.hourlyEntries = sent,
                                !.response = SeriesResponse(sent, st.weather,
                                                            st.warnings)]
      [] st.pc = "nasa" ->
            LET res == IF inp.ok THEN inp.val ELSE NoNasa
                sent == EnrichAll(st.hourlyEntries, res, st.weather)
            IN  IF res = NoNasa /\ st.nasaWindow < Len(NasaWindows)
                THEN [st EXCEPT !.nasaWindow = @ + 1]
                ELSE [st EXCEPT !.pc = "done", !.nasaResult = res,
                                !.hourlyEntries = sent,
                                !.response = SeriesResponse(sent, st.weather,
                                                            st.warnings)]

\* a handler that keeps the base of its single-sample series in tempoMock
TempoMockCaching(mock, st) ==
    IF st.tier = 4 /\ "components" \in DOMAIN st.currentSample
    THEN [hourly |-> << st.currentSample.components >>]
    ELSE mock

\* tempoMock after the handler has run from one await to the next, st being
\* the locals it is left with: tempoMock is assigned at module load only
TempoMockAfter(mock, st) == mock

\* one request served with nobody else around: the handler run from entry
\* over the outcomes ins of its awaited calls
RECURSIVE RunAlone(_, _, _, _)
RunAlone(st, mock, t, ins) ==
    IF ins = << >> THEN st
    ELSE LET st2 == AfterAwait(st, mock, t, Head(ins))
         IN  RunAlone(st2, TempoMockAfter(mock, st2), t, Tail(ins))

TwoWeather ==
    [name |-> "City",
     main |-> [temp |-> Num(21), humidity |-> Num(40), pressure |-> Num(1013)],
     wind |-> [speed |-> Num(3)]]

TwoNasaDay ==
    [date |-> "20261105",
     parameters |-> [T2M |-> Num(18), RH2M |-> NULL, WS10M |-> Num(2),
                     PS |-> Num(101), PRECTOTCORR |-> Num(0)]]

Outcome(ok, val) == [ok |-> ok, val |-> val]

\* the outcomes of the call a handler at position p awaits, h being the
\* current hour start
TwoOutcomes(p, h) ==
    CASE p = "start"    -> { Outcome(TRUE, q) : q \in QueryChoices }
      [] p = "country"  -> { Outcome(TRUE, "US"), Outcome(TRUE, FAIL) }
      [] p = "country2" -> { Outcome(TRUE, FAIL) }
      [] p = "weather"  -> { Outcome(TRUE, TwoWeather) }
      [] p = "forecast" ->
            { Outcome(FALSE, << >>),
              Outcome(TRUE, << [dt |-> h + 2 * HOUR_SECONDS,
                                components |-> "pm2_5" :> Num(50)] >>) }
      [] p = "history"  ->
            { Outcome(TRUE, << >>),
              Outcome(TRUE, << [dt |-> HugeDt,
                                components |-> "pm2_5" :> Num(10)] >>) }
      [] p = "current"  ->
            { Outcome(TRUE, NoSample),
              Outcome(TRUE, [dt |-> h + 1234,
                             components |-> "pm2_5" :> Num(42)]) }
      [] p = "nasa"     -> { Outcome(FALSE, NoNasa), Outcome(TRUE, TwoNasaDay) }
      [] OTHER          -> { }

InitTwo ==
    /\ AggOff /\ ItpOff /\ MapOff /\ AqiOff
    /\ pc = "off"
    /\ query = NoQuery
    /\ failed = {}
    /\ tempoMock \in MockChoices
    /\ now \in NowChoices
    /\ countryCode = NoCountry
    /\ weather = NoWeather
    /\ warnings = << >>
    /\ forecastSamples = << >>
    /\ historySamples = << >>
    /\ currentSample = NoSample
    /\ hourlyEntries = << >>
    /\ tier = 0
    /\ nasaWindow = 0
    /\ nasaResult = NoNasa
    /\ response = NoResponse
    /\ reqs = [r \in Requests |-> NewRequest]
    /\ provided = [loaded |-> tempoMock,
                   results |-> [r \in Requests |-> << >>],
                   overlapped |-> FALSE]

\* the handler of request r runs from the await it is at to its next one
HandlerStep(r, inp) ==
    /\ reqs[r].pc # "done"
    /\ \E st \in {AfterAwait(reqs[r], tempoMock, now, inp)} :
          /\ reqs' = [reqs EXCEPT ![r] = st]
          /\ tempoMock' = TempoMockAfter(tempoMock, st)
    /\ provided' =
          [provided EXCEPT
              !.results[r] = Append(@, inp),
              !.overlapped = @ \/ \E o \in Requests \ {r} :
                                      reqs[o].pc \notin {"start", "done"}]
    /\ UNCHANGED << pc, query, failed, now, countryCode, weather, warnings,
                    forecastSamples, historySamples, currentSample, hourlyEntries,
                    tier, nasaWindow, nasaResult, response,
                    aggVars, itpVars, mapVars, aqiVars >>

NextTwo ==
    \E r \in Requests :
        \E inp \in TwoOutcomes(reqs[r].pc, nowHourStartSec(now)) :
            HandlerStep(r, inp)

SpecTwo == InitTwo /\ [][NextTwo]_vars

---------------------------------------------------------------------------
(* MapScreen: PM2.5 -> AQI conversion (src/unnamed/part_001) *)

Band(clo, chi, ilo, ihi) ==
    [C_lo |-> clo, C_hi |-> chi, I_lo |-> Num(ilo), I_hi |-> Num(ihi)]

PM25_BREAKPOINTS ==
    << Band(Num(0), Num(12), 0, 50),
       Band(Norm(121, 10), Norm(354, 10), 51, 100),
       Band(Norm(355, 10), Norm(554, 10), 101, 150),
       Band(Norm(555, 10), Norm(1504, 10), 151, 200),
       Band(Norm(1505, 10), Norm(2504, 10), 201, 300),
       Band(Norm(2505, 10), Norm(3504, 10), 301, 400),
       Band(Norm(3505, 10), Norm(5004, 10), 401, 500) >>

\* the bands that contain C, bounds included
BandsOf(C, breakpoints) ==
    { i \in 1..Len(breakpoints) :
        RLeq(breakpoints[i].C_lo, C) /\ RLeq(C, breakpoints[i].C_hi) }

\* the interpolation inside band b, rounded with Math.round
BandAqi(C, b) ==
    RRound(RAdd(RMul(RDiv(RSub(b.I_hi, b.I_lo), RSub(b.C_hi, b.C_lo)),
                     RSub(C, b.C_lo)),
                b.I_lo))

linearAqi(C, breakpoints) ==
    IF C = NULL THEN NULL
    ELSE IF BandsOf(C, breakpoints) # {}
         THEN BandAqi(C, breakpoints[CHOOSE i \in BandsOf(C, breakpoints) :
                                      \A j \in BandsOf(C, breakpoints) : i <= j])
         ELSE IF ~RLeq(breakpoints[1].C_lo, C)
              THEN breakpoints[1].I_lo
              ELSE breakpoints[Len(breakpoints)].I_hi

pm25ToAqi(pm25) == linearAqi(pm25, PM25_BREAKPOINTS)

\* concentrations in hundredths of a microgram per cubic metre: the band
\* bounds, values inside the bands, values between two bands, values above
\* the last band
AqiHundredths ==
    { 0, 600, 1200, 1205, 1210, 2000, 3540, 3545, 3550, 5540, 5545, 5550,
      15040, 15045, 15050, 25045, 35045, 50040, 50045, 60000 }

AqiConcentrations == { Norm(n, 100) : n \in AqiHundredths }

InitAqi ==
    /\ ReqOff /\ AggOff /\ ItpOff /\ TwoOff /\ MapOff
    /\ aqiIn \in AqiConcentrations \X AqiConcentrations
    /\ aqiOut = << >>

Convert ==
    /\ aqiOut = << >>
    /\ aqiOut' = << pm25ToAqi(aqiIn[1]), pm25ToAqi(aqiIn[2]) >>
    /\ UNCHANGED << aqiIn, reqVars, aggVars, itpVars, twoVars, mapVars >>

NextAqi == Convert

SpecAqi == InitAqi /\ [][NextAqi]_vars

---------------------------------------------------------------------------
(* MapScreen: concentric circles around the selected location *)

MaxSelections == 3

RADII == << 10000, 30000, 50000 >>

MapLocations == { "home", "office" }

\* what the 13 GET /api/aq calls of one fetchConcentricCircleAQ call gave,
\* after extractPm25FromResp: the centre value and, per radius, the values
\* at the bearings N, E, S, W (NULL for a failed call or a missing PM2.5)
MapResponses ==
    { [center |-> NULL,
       rings  |-> << << NULL, NULL, NULL, NULL >>,
                     << NULL, NULL, NULL, NULL >>,
                     << NULL, NULL, NULL, NULL >> >>],
      [center |-> Num(8),
       rings  |-> << << Num(10), Num(10), Num(10), Num(10) >>,
                     << Num(12), Norm(121, 10), NULL, NULL >>,
                     << Num(20), Num(30), NULL, Num(40) >> >>],
      [center |-> NULL,
       rings  |-> << << Num(10), Num(14), NULL, NULL >>,
                     << NULL, NULL, NULL, NULL >>,
                     << Num(60), Num(60), Num(60), Num(60) >> >>] }

RECURSIVE SumPm(_)
SumPm(samples) ==
    IF samples = << >> THEN Num(0)
    ELSE RAdd(samples[1], SumPm(Tail(samples)))

\* samples.length ? sum / samples.length : null, over the non-null values
AvgPm25(ring) ==
    LET samples == SelectSeq(ring, LAMBDA pm : pm # NULL)
    IN  IF Len(samples) > 0 THEN RDiv(SumPm(samples), Num(Len(samples)))
        ELSE NULL

Pm25ForCircle(resp, i) ==
    IF i = 1 /\ resp.center # NULL THEN resp.center ELSE AvgPm25(resp.rings[i])

CircleInfosOf(resp) ==
    [i \in 1..Len(RADII) |->
        [radius |-> RADII[i],
         pm25   |-> Pm25ForCircle(resp, i),
         aqi    |-> IF Pm25ForCircle(resp, i) # NULL
                    THEN pm25ToAqi(Pm25ForCircle(resp, i)) ELSE NULL]]

InitMap ==
    /\ ReqOff /\ AggOff /\ ItpOff /\ TwoOff /\ AqiOff
    /\ selected = NoLocation
    /\ loading = FALSE
    /\ circleInfos = << >>
    /\ fetches = {}
    /\ nSelect = 0
    /\ infosOf = NoLocation

\* setSelected(coords); the effect on [selected] then calls
\* fetchConcentricCircleAQ, which runs up to its await Promise.all
SelectLocation(l) ==
    /\ nSelect < MaxSelections
    /\ nSelect' = nSelect + 1
    /\ selected' = l
    /\ loading' = TRUE
    /\ circleInfos' = << >>
    /\ infosOf' = NoLocation
    /\ fetches' = fetches \cup { [id |-> nSelect + 1, loc |-> l] }
    /\ UNCHANGED << reqVars, aggVars, itpVars, twoVars, aqiVars >>

\* Promise.all of one call resolves: the rest of fetchConcentricCircleAQ
CompleteFetch(f, resp) ==
    /\ f \in fetches
    /\ fetches' = fetches \ { f }
    /\ circleInfos' = CircleInfosOf(resp)
    /\ infosOf' = f.loc
    /\ loading' = FALSE
    /\ UNCHANGED << selected, nSelect,
                    reqVars, aggVars, itpVars, twoVars, aqiVars >>

NextMap ==
    \/ \E l \in MapLocations : SelectLocation(l)
    \/ \E f \in fetches, resp \in MapResponses : CompleteFetch(f, resp)

SpecMap == InitMap /\ [][NextMap]_vars

---------------------------------------------------------------------------
(* Properties of the request (Spec) *)

SeriesSent == pc = "done" /\ response.kind = "series"
Answered == pc = "done" /\ response # BadRequestResponse

\* the seconds an ISO text stands for
SecFromIso(t) == t.day * 86400 + t.hh * 3600 + t.mm * 60 + t.ss

\* an entry without the fields the enrichment adds
Pollutants(e) ==
    [f \in (DOMAIN e) \cap {"time", "PM25", "PM10", "NO2", "O3", "CO", "sample_count"}
        |-> e[f]]

\* C1: every answer to a request with coordinates, whichever tier produced
\* it and also on the error path, carries an hourly array of exactly
\* SERIES_HOURS entries.
C1_HourlyLengthAlways ==
    Answered =>
        \/ response.kind = "series" /\ Len(response.hourly) = SERIES_HOURS
        \/ /\ response.kind = "mock"
           /\ "hourly" \in DOMAIN response.tempo
           /\ Len(response.tempo.hourly) = SERIES_HOURS

\* C2: in every series a tier produced, the first entry's time is the current
\* hour boundary and each following entry's time is 3600 seconds after the
\* previous one.
C2_TimesHourly ==
    SeriesSent =>
        /\ Len(response.hourly) >= 1
        /\ response.hourly[1].time = isoFromSec(nowHourStartSec(now))
        /\ nowHourStartSec(now) % HOUR_SECONDS = 0
        /\ nowHourStartSec(now) <= now /\ now < nowHourStartSec(now) + HOUR_SECONDS
        /\ \A i \in 2..Len(response.hourly) :
              SecFromIso(response.hourly[i].time)
                  = SecFromIso(response.hourly[i - 1].time) + 3600

\* a series from the history slice (tier 3) was sent
C2_Witness == SeriesSent /\ tier = 3 /\ Len(response.hourly) = SERIES_HOURS

\* the candidate of tier t for the request's samples, and whether tier t is
\* tried and its candidate has at least 2 entries with PM25
TierCandidate(t) ==
    LET h == nowHourStartSec(now)
    IN  CASE t = 1 -> CombinedCandidate(forecastSamples \o historySamples, h, SERIES_HOURS)
          [] t = 2 -> DirectCandidate(forecastSamples, h, SERIES_HOURS)
          [] t = 3 -> HistoryCandidate(historySamples, h, SERIES_HOURS)
          [] t = 4 -> FallbackCandidate(currentSample, tempoMock, h, SERIES_HOURS)

TierSufficient(t) ==
    CASE t = 1 -> Len(forecastSamples \o historySamples) > 0 /\ CountPM25(TierCandidate(1)) >= 2
      [] t = 2 -> Len(forecastSamples) > 0 /\ CountPM25(TierCandidate(2)) >= 2
      [] t = 3 -> Len(historySamples) > 0 /\ CountPM25(TierCandidate(3)) >= 2
      [] t = 4 -> TRUE

C4_AlwaysSuccessful ==
    Answered => response.status = 200

\* C5: with no forecast and no history sample and a current sample with
\* PM2.5 = v, every entry has PM25 = v and sample_count = 0; and whenever
\* tier 4 is used all entries carry the same component values and
\* sample_count = 0.
C5_Replicated ==
    SeriesSent =>
        /\ ( /\ forecastSamples = << >> /\ historySamples = << >>
             /\ "components" \in DOMAIN currentSample
             /\ Get(currentSample.components, "pm2_5") # NULL )
           => /\ Len(response.hourly) = SERIES_HOURS
              /\ \A i \in 1..Len(response.hourly) :
                    /\ Has(response.hourly[i], "PM25")
                    /\ response.hourly[i]["PM25"] = currentSample.components["pm2_5"]
                    /\ response.hourly[i]["sample_count"] = 0
        /\ tier = 4
           => \A i \in 1..Len(response.hourly) :
                 /\ response.hourly[i]["sample_count"] = 0
                 /\ \A f \in {"PM25", "PM10", "NO2", "O3", "CO"} :
                       Get(response.hourly[i], f) = Get(response.hourly[1], f)

\* no forecast, no history, a current sample with PM2.5 = 42: 42 in the last hour
C5_Witness ==
    /\ SeriesSent /\ tier = 4
    /\ forecastSamples = << >> /\ historySamples = << >>
    /\ tempoMock # NoMock
    /\ Len(response.hourly) = SERIES_HOURS
    /\ Get(response.hourly[SERIES_HOURS], "PM25") = Num(42)

\* the NASA POWER parameter and the point-weather path behind a weather field
NasaParam == [Temperature |-> "T2M", Humidity |-> "RH2M",
              Wind_Speed |-> "WS10M", Pressure |-> "PS"]
WeatherPath == [Temperature |-> << "main", "temp" >>, Humidity |-> << "main", "humidity" >>,
                Wind_Speed |-> << "wind", "speed" >>, Pressure |-> << "main", "pressure" >>]

\* what each source furnishes for field f in this request, NULL for nothing
FromNasa(f) ==
    IF "parameters" \in DOMAIN nasaResult THEN Get(nasaResult.parameters, NasaParam[f])
    ELSE NULL
FromWeather(f) ==
    IF weather = NoWeather THEN NULL
    ELSE GetIn(weather, WeatherPath[f][1], WeatherPath[f][2])

\* C22: NASA POWER is queried only for a country code of the allow-list; for
\* an unknown country or one outside the list no NASA call is made, there is
\* no NASA result, and no entry sent carries _nasa_date or a weather field
\* other than the point weather's.
C22_NasaGated ==
    (countryCode = NoCountry \/ countryCode \notin ALLOWED_COUNTRY_CODES) =>
        /\ pc # "nasa" /\ nasaWindow = 0 /\ nasaResult = NoNasa
        /\ "nasa" \notin failed
        /\ SeriesSent =>
              \A i \in 1..Len(response.hourly) :
                  /\ ~Has(response.hourly[i], "_nasa_date")
                  /\ \A f \in {"Temperature", "Humidity", "Wind_Speed"} :
                        Get(response.hourly[i], f) = FromWeather(f)

\* a location in India with point weather: the weather's 21 degrees, no _nasa_date
C22_Witness ==
    /\ SeriesSent /\ countryCode = "IN" /\ weather # NoWeather
    /\ Get(response.hourly[1], "Temperature") = Num(21)
    /\ ~Has(response.hourly[1], "_nasa_date")

\* C23: the country lookup, the forecast call and the history call are all
\* in flight before the result of any of them is waited for: whenever one of
\* them has returned, all three have been issued.
C23_CallsConcurrent ==
    \A c \in DOMAIN CallIssuedAt :
        Returned(c) => \A d \in DOMAIN CallIssuedAt : Issued(d)

\* the forecast and the history have been fetched and aggregating them
\* does not throw
SamplesUsable ==
    /\ pc \in {"current", "nasa", "done"} /\ response # BadRequestResponse
    /\ ~aggregateThrows(RawSamples(forecastSamples \o historySamples))

CombinedBuckets ==
    ToAggMap(aggregateSamplesToHourly(RawSamples(forecastSamples \o historySamples)))

\* C27: if the combined samples form at least one bucket and every bucket
\* carries pm2_5, every entry of the combined candidate has PM25 and tier 1
\* is the one used; one sample with pm2_5 is enough, whatever its hour.
C27_AllEntriesPopulated ==
    ( /\ SamplesUsable /\ pc = "done"
      /\ DOMAIN CombinedBuckets # {}
      /\ \A k \in DOMAIN CombinedBuckets : Carries(CombinedBuckets[k], "pm2_5") )
    => /\ SeriesSent /\ tier = 1
       /\ Len(response.hourly) = SERIES_HOURS
       /\ \A i \in 1..Len(response.hourly) : Has(response.hourly[i], "PM25")

\* a single sample, in the hour before the target hours: PM25 in all entries
C27_Witness ==
    /\ SeriesSent /\ tier = 1
    /\ Len(forecastSamples \o historySamples) = 1
    /\ (forecastSamples \o historySamples)[1].ts < nowHourStartSec(now)
    /\ \A i \in 1..Len(response.hourly) : Get(response.hourly[i], "PM25") = Num(10)

\* the history samples of the request that carry X, and the mean of X over them
HistoryCarriers(X) ==
    {i \in 1..Len(historySamples) : Get(historySamples[i].components, X) # NULL}

RECURSIVE SumOfHistory(_, _)
SumOfHistory(I, X) ==
    IF I = {} THEN Num(0)
    ELSE LET i == CHOOSE j \in I : TRUE
         IN  RAdd(historySamples[i].components[X], SumOfHistory(I \ {i}, X))

HistoryAverage(X) ==
    IF HistoryCarriers(X) = {} THEN NULL
    ELSE RDiv(SumOfHistory(HistoryCarriers(X), X), Num(Cardinality(HistoryCarriers(X))))

\* the value the base of tier 4 has for X under the order: historical
\* average, else current sample, else tempoMock
PriorityBase(X) ==
    IF \E Y \in CompKeys : HistoryAverage(Y) # NULL THEN HistoryAverage(X)
    ELSE IF "components" \in DOMAIN currentSample /\ DOMAIN currentSample.components # {}
    THEN Get(currentSample.components, X)
    ELSE IF "hourly" \in DOMAIN tempoMock /\ Len(tempoMock.hourly) > 0
    THEN Get(tempoMock.hourly[1], X)
    ELSE NULL

\* C14: when tier 4 is used, the replicated base is the most recent
\* historical average if there is one, else the current sample if there is
\* one, else tempoMock's first entry.
C14_BasePriority ==
    (SeriesSent /\ tier = 4) =>
        \A i \in 1..Len(response.hourly) : \A X \in CompKeys :
            Get(response.hourly[i], FieldOf[X]) = PriorityBase(X)

\* C18: whenever the forecast gives a direct-match series with at least 2
\* entries that have PM25, the series sent is that direct-match series.
C18_DirectMatchFirst ==
    (SeriesSent /\ Len(forecastSamples) > 0 /\ CountPM25(TierCandidate(2)) >= 2)
    => \E direct \in {TierCandidate(2)} :
          /\ Len(response.hourly) = Len(direct)
          /\ \A i \in 1..Len(direct) : Pollutants(response.hourly[i]) = direct[i]

---------------------------------------------------------------------------
(* Properties of the request's surroundings (SpecEnv) *)

\* C11: in every entry of the series sent, each of Temperature, Humidity,
\* Wind_Speed and Pressure is the NASA value when NASA furnishes it,
\* otherwise the point-weather value when the weather furnishes it (for
\* Pressure: a value converted from the weather's hPa), otherwise absent;
\* and all entries carry the same weather fields.
C11_WeatherPriority ==
    SeriesSent =>
        \A i \in 1..Len(response.hourly) : \E e \in {response.hourly[i]} :
            /\ \A f \in {"Temperature", "Humidity", "Wind_Speed"} :
                  Get(e, f) = IF FromNasa(f) # NULL THEN FromNasa(f) ELSE FromWeather(f)
            /\ IF FromNasa("Pressure") # NULL
               THEN Get(e, "Pressure") = FromNasa("Pressure")
               ELSE Has(e, "Pressure") <=> FromWeather("Pressure") # NULL
            /\ \A f \in DOMAIN NasaParam : Get(e, f) = Get(response.hourly[1], f)

\* the warnings of the response that report a source (not the region note)
ReportedSources ==
    {i \in 1..Len(response.warnings) : response.warnings[i].source # "region"}

\* C12: the warnings of the response are {source, detail} entries, with one
\* entry for every upstream source whose call failed in the request, and a
\* request in which a source failed is still answered with a series.
C12_WarningPerFailedSource ==
    (pc = "done" /\ response # BadRequestResponse) =>
        /\ response.kind = "series"
        /\ \A i \in 1..Len(response.warnings) :
              DOMAIN response.warnings[i] = {"source", "detail"}
        /\ "geocode" \in failed =>
              \E i \in ReportedSources : response.warnings[i].source = "geocode"
        /\ "weather" \in failed =>
              \E i \in ReportedSources : response.warnings[i].source = "openweather_weather"
        /\ Cardinality(ReportedSources) >= Cardinality(failed)

\* C13: a request whose lat or lon is not given or is not a number is
\* answered with an error at once: no provider call is issued for it and no
\* series is built.
C13_InvalidRejected ==
    (pc # "start" /\ ( \/ Missing(query.lat) \/ query.lat \notin NumericStrings
                       \/ Missing(query.lon) \/ query.lon \notin NumericStrings ))
    => /\ pc = "done"
       /\ response.status >= 400
       /\ failed = {} /\ forecastSamples = << >> /\ hourlyEntries = << >>

\* the samples the tier that was used builds its series from
TierSamples ==
    IF tier = 3 THEN historySamples
    ELSE IF tier = 4 THEN << >>
    ELSE forecastSamples \o historySamples

\* the samples of hour t among them that carry at least one component
RealSamples(t) ==
    {i \in 1..Len(TierSamples) :
        /\ "ts" \in DOMAIN TierSamples[i]
        /\ floorToHourSec(TierSamples[i].ts) = t
        /\ \E k \in DOMAIN TierSamples[i].components :
              TierSamples[i].components[k] # NULL}

\* C17: every entry of every series sent carries a sample_count: the number
\* of real samples aggregated into the entry's hour, so 0 for an entry that
\* was interpolated, extrapolated or replicated.
C17_SampleCount ==
    SeriesSent =>
        \A i \in 1..Len(response.hourly) :
            /\ Has(response.hourly[i], "sample_count")
            /\ response.hourly[i]["sample_count"]
                 = Cardinality(RealSamples(nowHourStartSec(now) + (i - 1) * HOUR_SECONDS))

\* no source of the series has a value: no sample at all and no tempoMock
NoDataAtAll ==
    /\ forecastSamples = << >> /\ historySamples = << >>
    /\ currentSample = NoSample /\ tempoMock = NoMock

\* C19: when no tier has any value, the answer is still a series of
\* SERIES_HOURS entries, none of which has a component, and its warnings
\* hold at least one entry.
C19_NoDataWarned ==
    (pc = "done" /\ response # BadRequestResponse /\ NoDataAtAll) =>
        /\ response.kind = "series"
        /\ Len(response.hourly) = SERIES_HOURS
        /\ \A i \in 1..Len(response.hourly) : \A X \in CompKeys :
              ~Has(response.hourly[i], FieldOf[X])
        /\ Len(response.warnings) >= 1

\* the samples that have a numeric timestamp, in the same order
RECURSIVE WithTimestamp(_)
WithTimestamp(samples) ==
    IF samples = << >> THEN << >>
    ELSE IF "ts" \in DOMAIN Head(samples)
    THEN << Head(samples) >> \o WithTimestamp(Tail(samples))
    ELSE WithTimestamp(Tail(samples))

\* C21: a provider record without a numeric timestamp is dropped silently:
\* the request is answered with the series it would get without the
\* record, whichever tier builds it, and never with an error.
C21_NoTimestampDropped ==
    (pc = "done" /\ response # BadRequestResponse) =>
        /\ response.kind = "series"
        /\ \E sel \in {SelectSeries(WithTimestamp(forecastSamples),
                                    WithTimestamp(historySamples),
                                    IF "ts" \in DOMAIN currentSample
                                    THEN currentSample ELSE NoSample,
                                    tempoMock, nowHourStartSec(now), SERIES_HOURS)} :
              /\ Len(response.hourly) = Len(sel.hourlyEntries)
              /\ \A i \in 1..Len(sel.hourlyEntries) :
                    Pollutants(response.hourly[i]) = sel.hourlyEntries[i]

---------------------------------------------------------------------------
(* Properties of aggregateSamplesToHourly (SpecAgg) *)

\* the samples of hour h that the aggregator reads and that carry X
CarriersOf(h, X) ==
    {i \in 1..Len(aggSamples) :
        /\ HasNumberDt(aggSamples[i]) /\ HasComponents(aggSamples[i])
        /\ floorToHourSec(aggSamples[i].dt) = h
        /\ Get(aggSamples[i].components, X) # NULL}

RECURSIVE SumOfX(_, _)
SumOfX(I, X) ==
    IF I = {} THEN Num(0)
    ELSE LET i == CHOOSE j \in I : TRUE
         IN  RAdd(aggSamples[i].components[X], SumOfX(I \ {i}, X))

\* C6: in every bucket, the value of each component X is the arithmetic mean
\* of X over exactly the samples of that hour that carried a non-null X.
C6_MeanOverCarriers ==
    aggDone =>
        \A b \in 1..Len(aggOut) : \A X \in DOMAIN aggOut[b].components :
            \E I \in {CarriersOf(aggOut[b].ts, X)} :
                /\ I # {}
                /\ aggOut[b].components[X] = RDiv(SumOfX(I, X), Num(Cardinality(I)))

NoComponents(smp) ==
    ~HasComponents(smp) \/ \A k \in DOMAIN smp.components : smp.components[k] = NULL

\* the samples without those that have no components, in the same order
RECURSIVE WithComponents(_)
WithComponents(samples) ==
    IF samples = << >> THEN << >>
    ELSE IF NoComponents(Head(samples)) THEN WithComponents(Tail(samples))
    ELSE << Head(samples) >> \o WithComponents(Tail(samples))

\* C16: a sample with no components is ignored by the aggregator: the
\* buckets, their sample counts and their averages are those of the samples
\* without it.
C16_EmptySamplesIgnored ==
    aggDone => aggOut = aggregateSamplesToHourly(WithComponents(aggSamples))

\* C20: in every bucket a component X is present exactly when a sample of
\* that hour carried a non-null X, and a present X is 0 only when the values
\* that were carried add up to 0.
C20_PresentIffCarried ==
    aggDone =>
        \A b \in 1..Len(aggOut) : \A X \in CompKeys :
            /\ X \in DOMAIN aggOut[b].components <=> CarriersOf(aggOut[b].ts, X) # {}
            /\ Get(aggOut[b].components, X) = Num(0)
                  => SumOfX(CarriersOf(aggOut[b].ts, X), X) = Num(0)

\* a bucket of two samples of which one carried PM2.5 and one NO2, and a
\* second bucket without NO2
C20_Witness ==
    /\ aggDone /\ Len(aggOut) = 2
    /\ aggOut[1].samples = 2
    /\ DOMAIN aggOut[1].components = {"pm2_5", "no2"}
    /\ Cardinality(CarriersOf(aggOut[1].ts, "pm2_5")) = 1
    /\ Cardinality(CarriersOf(aggOut[1].ts, "no2")) = 1
    /\ DOMAIN aggOut[2].components = {"pm2_5"}

---------------------------------------------------------------------------
(* Properties of buildHourlySeriesFromAggregated (SpecItp) *)

ItpTarget(i) == ItpStart + (i - 1) * HOUR_SECONDS

\* the nearest bucket at or before t, and the nearest strictly after t
LeftNeighbour(t) ==
    LET ks == {k \in DOMAIN itpMap : k <= t}
    IN  IF ks = {} THEN NoBucket
        ELSE itpMap[CHOOSE k \in ks : \A j \in ks : j <= k]

RightNeighbour(t) ==
    LET ks == {k \in DOMAIN itpMap : k > t}
    IN  IF ks = {} THEN NoBucket
        ELSE itpMap[CHOOSE k \in ks : \A j \in ks : k <= j]

\* the same among the buckets that carry X
LeftCarrier(t, X) ==
    LET ks == {k \in DOMAIN itpMap : k <= t /\ Carries(itpMap[k], X)}
    IN  IF ks = {} THEN NoBucket
        ELSE itpMap[CHOOSE k \in ks : \A j \in ks : j <= k]

RightCarrier(t, X) ==
    LET ks == {k \in DOMAIN itpMap : k > t /\ Carries(itpMap[k], X)}
    IN  IF ks = {} THEN NoBucket
        ELSE itpMap[CHOOSE k \in ks : \A j \in ks : k <= j]

\* left + (target - left.ts)/(right.ts - left.ts) * (right - left)
Linear(t, L, R, X) ==
    RAdd(L.components[X],
         RMul(RDiv(Num(t - L.ts), Num(R.ts - L.ts)),
              RSub(R.components[X], L.components[X])))

\* C8: for a target hour without a bucket whose left and right neighbours
\* both carry X, the entry's X is the linear interpolation between them.
C8_LinearBetweenNeighbours ==
    itpDone =>
        \A i \in 1..ItpHours : \A X \in CompKeys :
            \E L \in {LeftNeighbour(ItpTarget(i))}, R \in {RightNeighbour(ItpTarget(i))} :
                (ItpTarget(i) \notin DOMAIN itpMap /\ Carries(L, X) /\ Carries(R, X))
                => /\ Has(itpSeries[i], FieldOf[X])
                   /\ itpSeries[i][FieldOf[X]] = Linear(ItpTarget(i), L, R, X)

\* buckets only at hour 0 and hour 4 with PM2.5 10 and 50: 30 at hour 2
C8_Witness ==
    /\ itpDone
    /\ DOMAIN itpMap = {ItpTarget(1), ItpTarget(5)}
    /\ itpMap[ItpTarget(1)].components = ("pm2_5" :> Num(10))
    /\ itpMap[ItpTarget(5)].components = ("pm2_5" :> Num(50))
    /\ Get(itpSeries[3], "PM25") = Num(30)
    /\ itpSeries[3]["sample_count"] = 0

\* C9: for a target hour without a bucket: if the left neighbour carries X
\* and the right one does not, the entry's X is the left value; if the right
\* neighbour carries X and the left one does not, it is the right value; if
\* no bucket carries X the entry has no X.
C9_FlatExtrapolation ==
    itpDone =>
        \A i \in 1..ItpHours : \A X \in CompKeys :
            \E L \in {LeftNeighbour(ItpTarget(i))}, R \in {RightNeighbour(ItpTarget(i))} :
                ItpTarget(i) \notin DOMAIN itpMap
                => /\ (Carries(L, X) /\ ~Carries(R, X))
                      => Get(itpSeries[i], FieldOf[X]) = L.components[X]
                   /\ (~Carries(L, X) /\ Carries(R, X))
                      => Get(itpSeries[i], FieldOf[X]) = R.components[X]
                   /\ (\A k \in DOMAIN itpMap : ~Carries(itpMap[k], X))
                      => ~Has(itpSeries[i], FieldOf[X])

\* a bucket only at hour 0 with PM2.5 10: 10 at hour 3, and no NO2
C9_Witness ==
    /\ itpDone
    /\ DOMAIN itpMap = {ItpTarget(1)}
    /\ itpMap[ItpTarget(1)].components = ("pm2_5" :> Num(10))
    /\ Get(itpSeries[4], "PM25") = Num(10)
    /\ ~Has(itpSeries[4], "NO2")

\* C10: for a target hour without a bucket, the entry's X is computed from
\* the nearest buckets that carry X, skipping nearer buckets that carry only
\* other components.
C10_NeighboursCarryX ==
    itpDone =>
        \A i \in 1..ItpHours : \A X \in CompKeys :
            ItpTarget(i) \notin DOMAIN itpMap
            => Get(itpSeries[i], FieldOf[X])
                 = interpolateValue(ItpTarget(i), LeftCarrier(ItpTarget(i), X),
                                    RightCarrier(ItpTarget(i), X), X)

\* C15: for a target hour whose own bucket does not carry X, the entry's X
\* is still estimated from the nearest buckets that carry X.
C15_EstimatedAtBucketHours ==
    itpDone =>
        \A i \in 1..ItpHours : \A X \in CompKeys :
            (ItpTarget(i) \in DOMAIN itpMap /\ ~Carries(itpMap[ItpTarget(i)], X))
            => Get(itpSeries[i], FieldOf[X])
                 = interpolateValue(ItpTarget(i), LeftCarrier(ItpTarget(i), X),
                                    RightCarrier(ItpTarget(i), X), X)

\* history samples that aggregate to the buckets of itpMap: one per bucket
MapSamples ==
    LET keys == SortAsc(DOMAIN itpMap)
    IN  [i \in 1..Len(keys) |->
            [ts |-> keys[i], components |-> itpMap[keys[i]].components]]

\* C26: the tier-3 candidate (built from 12 hours before the start over 24
\* hours more, then sliced from the start hour's entry) is entry for entry
\* the series built from the same buckets over the target hours alone.
C26_WindowIndependent ==
    itpDone => HistoryCandidate(MapSamples, ItpStart, ItpHours) = itpSeries

\* only a bucket before the first and one after the last target hour, both
\* with PM2.5: the first entry is interpolated between them
C26_Witness ==
    /\ itpDone
    /\ DOMAIN itpMap = {ItpStart - HOUR_SECONDS, ItpStart + ItpHours * HOUR_SECONDS}
    /\ itpMap[ItpStart - HOUR_SECONDS].components = ("pm2_5" :> Num(10))
    /\ itpMap[ItpStart + ItpHours * HOUR_SECONDS].components = ("pm2_5" :> Num(50))
    /\ Has(itpSeries[1], "PM25")
    /\ itpSeries[1]["PM25"] # Num(10) /\ itpSeries[1]["PM25"] # Num(50)

\* v lies between a and b, whichever is the larger
Between(v, a, b) == (RLeq(a, v) /\ RLeq(v, b)) \/ (RLeq(b, v) /\ RLeq(v, a))

\* C28: a value X of an entry lies between the X values of the left and
\* right neighbour buckets it was computed from, and so between the least
\* and the greatest X of all buckets.
C28_NoOvershoot ==
    itpDone =>
        \A i \in 1..ItpHours : \A X \in CompKeys :
            Has(itpSeries[i], FieldOf[X]) =>
                \E v \in {itpSeries[i][FieldOf[X]]},
                   L \in {LeftNeighbour(ItpTarget(i))}, R \in {RightNeighbour(ItpTarget(i))} :
                    /\ (ItpTarget(i) \notin DOMAIN itpMap /\ Carries(L, X) /\ Carries(R, X))
                          => Between(v, L.components[X], R.components[X])
                    /\ (ItpTarget(i) \notin DOMAIN itpMap /\ ~(Carries(L, X) /\ Carries(R, X)))
                          => \/ Carries(L, X) /\ v = L.components[X]
                             \/ Carries(R, X) /\ v = R.components[X]
                    /\ \E lo, hi \in {k \in DOMAIN itpMap : Carries(itpMap[k], X)} :
                          /\ RLeq(itpMap[lo].components[X], v)
                          /\ RLeq(v, itpMap[hi].components[X])

\* buckets only at hour 0 and hour 3 with PM2.5 50 and 10: the entry of hour
\* 2 is strictly between them
C28_Witness ==
    /\ itpDone
    /\ DOMAIN itpMap = {ItpTarget(1), ItpTarget(4)}
    /\ itpMap[ItpTarget(1)].components = ("pm2_5" :> Num(50))
    /\ itpMap[ItpTarget(4)].components = ("pm2_5" :> Num(10))
    /\ Has(itpSeries[3], "PM25")
    /\ RLeq(Num(10), itpSeries[3]["PM25"]) /\ RLeq(itpSeries[3]["PM25"], Num(50))
    /\ itpSeries[3]["PM25"] \notin {Num(10), Num(50)}

---------------------------------------------------------------------------
(* Properties of pm25ToAqi (SpecAqi) *)

Converted == aqiOut # << >>

\* C30: for non-negative concentrations C1 <= C2, values between two bands
\* included, pm25ToAqi(C1) <= pm25ToAqi(C2) and both results lie in 0..500.
C30_MonotoneBounded ==
    Converted =>
        /\ RLeq(aqiIn[1], aqiIn[2]) => RLeq(aqiOut[1], aqiOut[2])
        /\ \A i \in 1..2 : RLeq(Num(0), aqiOut[i]) /\ RLeq(aqiOut[i], Num(500))

\* the bounded half alone
C30_Bounded ==
    Converted =>
        \A i \in 1..2 : RLeq(Num(0), aqiOut[i]) /\ RLeq(aqiOut[i], Num(500))

---------------------------------------------------------------------------
(* Properties of MapScreen (SpecMap) *)

AllFetchesCompleted == nSelect > 0 /\ fetches = {}

\* C29: once every fetchConcentricCircleAQ call has completed, circleInfos
\* holds the values computed for the most recently selected location and
\* loading is false.
C29_LatestSelectionWins ==
    AllFetchesCompleted => infosOf = selected /\ loading = FALSE

\* the loading half alone
C29_LoadingCleared == AllFetchesCompleted => loading = FALSE

---------------------------------------------------------------------------
(* Properties of two requests in flight at once (SpecTwo) *)

Finished(r) == reqs[r].pc = "done"

AloneResponse(r) ==
    RunAlone(NewRequest, provided.loaded, now, provided.results[r]).response

\* C24: whatever the interleaving of two requests, each response is the one
\* the request gets when it runs alone with the same provider results, and
\* no request writes tempoMock, the only module-level variable.
C24_NoInterference ==
    /\ \A r \in Requests : Finished(r) => reqs[r].response = AloneResponse(r)
    /\ tempoMock = provided.loaded

\* both requests were in flight together and are answered, one with the
\* replicated current sample and one with the replicated mock entry
C24_Witness ==
    /\ \A r \in Requests : Finished(r) /\ reqs[r].response.kind = "series"
    /\ provided.overlapped
    /\ reqs[1].tier = 4 /\ reqs[2].tier = 4
    /\ "components" \in DOMAIN reqs[1].currentSample
    /\ reqs[2].currentSample = NoSample
    /\ tempoMock # NoMock

====
